---- MODULE Spec2Model ----
(***************************************************************************)
(* Model of src/main.py: the PDFDocument session (load / delete / insert / *)
(* merge), the PDFPage handles it keeps, and the PDFViewerScreen handlers  *)
(* that drive it (create_new_pdf, load_pdf, show_page, confirm_delete_page,*)
(* zoom_in, zoom_out, and the delete button of a PagePreviewWidget).       *)
(*                                                                         *)
(* The PyMuPDF document (fitz.Document) is modelled as the sequence of its *)
(* pages' texts and, per page, the annotations committed to that page.     *)
(* Files are the environment: the readable files are fixed, and what       *)
(* save_document and extract_pages write is not read back.                 *)
(* Library calls are atomic: they either raise before       *)
(* changing the document or succeed.  Every PDFPage in self.pages holds    *)
(* the current self.doc (load_document, merge_documents and insert_page    *)
(* all build handles from self.doc), so a handle is its page_num plus its  *)
(* annotations list.  Purely presentational widget texts (status bar,      *)
(* labels, dialogs, snackbars) are not part of the state.                  *)
(***************************************************************************)
EXTENDS Integers, Sequences, FiniteSets, TLC

VARIABLES
    pdf_document,   \* PDFViewerScreen.pdf_document: None or the session
    file_path,      \* PDFDocument.file_path
    doc,            \* PDFDocument.doc: [open, page]; open = FALSE is None
    pages,          \* PDFDocument.pages: sequence of PDFPage handles
    metadata,       \* PDFDocument.metadata
    current_page,   \* PDFDocument.current_page
    zoom_level,     \* PDFDocument.zoom_level, in units of 1/ZoomScale
    result,         \* the last operation called, its arguments, its outcome
    propagated,     \* the exception the last operation let through, if any
    page_list       \* PDFViewerScreen.page_list: the handles of its widgets

vars == <<pdf_document, file_path, doc, pages, metadata, current_page,
          zoom_level, result, propagated, page_list>>

session == <<file_path, doc, pages, metadata, current_page, zoom_level>>

----------------------------------------------------------------------------
(* Bounds and inputs *)

MaxPages == 2

\* most annotations in one document
MaxAnnots == 1

ZoomScale == 1000

None == "None"

Session == "PDFDocument"

\* Paths handed to load_document / merge_documents / PDFDocument(file_path)
Paths == {"a.pdf", "b.pdf", "missing.pdf"}

\* fitz.open(path) raises unless the path names a parseable document
CanOpen(path) == path \in {"a.pdf", "b.pdf"}

\* the page texts of the document fitz.open(path) returns
FileText(path) ==
    IF path = "a.pdf" THEN <<"A1", "A2">>
    ELSE IF path = "b.pdf" THEN <<"B1">>
    ELSE <<>>

\* fitz.Document.metadata of the opened file
FileMetadata(path) == {<<"title", path>>}

\* content arguments of insert_page
Contents == {"Hello", "World"}

\* the text create_new_pdf writes on its first page
NewPdfText == "New PDF Document"

\* page_num arguments: below, inside and above the valid range
Indices == -1 .. MaxPages

\* page_num arguments of insert_page, where -1 appends and -2 is refused
InsertIndices == -2 .. MaxPages

\* output_path arguments of save_document and extract_pages
OutPaths == {"out.pdf"}

\* annotation_type arguments of add_annotation; "stamp" is not a known kind
AnnotationTypes == {"highlight", "text", "note", "stamp"}

----------------------------------------------------------------------------
(* PDFPage *)

PDFPage(page_num) == [page_num |-> page_num, annotations |-> <<>>]

NoDoc == [open |-> FALSE, page |-> <<>>, annot |-> <<>>]

\* an open document with the given page texts and page annotations
Doc(texts, annots) == [open |-> TRUE, page |-> texts, annot |-> annots]

\* a document as fitz.open returns it: no page carries an annotation
OpenDoc(texts) == Doc(texts, [i \in 1 .. Len(texts) |-> <<>>])

\* len(self.doc) of an open document; 0 while no document is open
PageCount == Len(doc.page)

\* [PDFPage(i, self.doc) for i in range(len(self.doc))]
AllPages(n) == [i \in 1 .. n |-> PDFPage(i - 1)]

\* PDFPage.get_text: self.pdf_doc[self.page_num].get_text(), "" on any error.
\* fitz indexes a negative page number from the end of the document.
get_text(h, d) ==
    LET n == Len(d.page)
        p == IF h.page_num < 0 THEN h.page_num + n ELSE h.page_num
    IN  IF d.open /\ 0 <= p /\ p < n THEN d.page[p + 1] ELSE ""

----------------------------------------------------------------------------
(* Python list operations *)

\* list.pop(i) for 0 <= i < len(s)
ListPop(s, i) == SubSeq(s, 1, i) \o SubSeq(s, i + 2, Len(s))

\* list.insert(i, x): a negative i counts from the end, and i is clamped
ListInsert(s, i, x) ==
    LET j == IF i < 0 THEN i + Len(s) ELSE i
        k == IF j < 0 THEN 0 ELSE IF j > Len(s) THEN Len(s) ELSE j
    IN  SubSeq(s, 1, k) \o <<x>> \o SubSeq(s, k + 1, Len(s))

Result(op, index, arg, ok) ==
    [op |-> op, index |-> index, arg |-> arg, ok |-> ok]

----------------------------------------------------------------------------
(* Exceptions *)

\* no exception was raised
NoFault == "none"

\* the subclasses of Exception the calls of PDFDocument can raise
Exceptions == {"AttributeError", "TypeError", "IndexError", "ValueError",
               "UnboundLocalError", "FileNotFoundError", "OSError"}

\* an except clause that names the library's errors only
HandlesLibraryErrors(exc) ==
    exc \in {"IndexError", "ValueError", "FileNotFoundError", "OSError"}

\* "except Exception as e": the clause every PDFDocument method ends with
Handles(exc) == exc \in Exceptions

\* what the caller sees of an exception raised inside the try block
Propagated(exc) == IF exc = NoFault \/ Handles(exc) THEN NoFault ELSE exc

----------------------------------------------------------------------------
Init ==
    /\ pdf_document = None
    /\ file_path = None
    /\ doc = NoDoc
    /\ pages = <<>>
    /\ metadata = {}
    /\ current_page = 0
    /\ zoom_level = ZoomScale
    /\ result = Result("init", 0, "", TRUE)
    /\ propagated = NoFault
    /\ page_list = <<>>

----------------------------------------------------------------------------
(* PDFDocument *)

\* the exception raised inside load_document's try block
load_document_fault(path) ==
    IF CanOpen(path) THEN NoFault ELSE "FileNotFoundError"

\* PDFDocument.load_document, the body of the method
load_document(path) ==
    /\ file_path' = path
    /\ IF CanOpen(path)
       THEN /\ doc' = OpenDoc(FileText(path))
            /\ pages' = AllPages(Len(FileText(path)))
            /\ metadata' = FileMetadata(path)
       ELSE UNCHANGED <<doc, pages, metadata>>

\* PDFDocument(file_path): the constructor, which loads when given a path
PDFDocumentInit(path) ==
    /\ pdf_document' = Session
    /\ current_page' = 0
    /\ zoom_level' = ZoomScale
    /\ IF path # None
       THEN /\ file_path' = path
            /\ doc' = IF CanOpen(path) THEN OpenDoc(FileText(path)) ELSE NoDoc
            /\ pages' = IF CanOpen(path) THEN AllPages(Len(FileText(path)))
                        ELSE <<>>
            /\ metadata' = IF CanOpen(path) THEN FileMetadata(path) ELSE {}
       ELSE /\ file_path' = None
            /\ doc' = NoDoc
            /\ pages' = <<>>
            /\ metadata' = {}
    /\ result' = Result("PDFDocument", 0, path, TRUE)
    /\ propagated' = IF path # None THEN Propagated(load_document_fault(path))
                     ELSE NoFault
    /\ UNCHANGED page_list

LoadDocument(path) ==
    /\ pdf_document # None
    /\ load_document(path)
    /\ UNCHANGED <<pdf_document, current_page, zoom_level>>
    /\ result' = Result("load_document", 0, path, CanOpen(path))
    /\ propagated' = Propagated(load_document_fault(path))
    /\ UNCHANGED page_list

\* delete_page's range check without its lower bound
delete_page_ok_no_lower(page_num) ==
    /\ page_num < Len(pages)
    /\ doc.open /\ page_num < PageCount

\* whether delete_page(page_num) reaches "return True"
delete_page_ok(page_num) ==
    /\ 0 <= page_num /\ page_num < Len(pages)
    /\ doc.open /\ page_num < PageCount

\* the exception raised inside delete_page's try block: self.doc.delete_page
\* is reached only past the range check
delete_page_fault(page_num) ==
    IF ~(0 <= page_num /\ page_num < Len(pages)) THEN NoFault
    ELSE IF ~doc.open THEN "AttributeError"
    ELSE IF ~(page_num < PageCount) THEN "ValueError"
    ELSE NoFault

\* delete_page that forgets self.pages.pop(page_num)
delete_page_no_pop(page_num) ==
    IF delete_page_ok(page_num)
    THEN /\ doc' = Doc(ListPop(doc.page, page_num),
                       ListPop(doc.annot, page_num))
         /\ pages' = pages
    ELSE UNCHANGED <<doc, pages>>

\* PDFDocument.delete_page, the body of the method
delete_page(page_num) ==
    IF delete_page_ok(page_num)
    THEN /\ doc' = Doc(ListPop(doc.page, page_num),
                       ListPop(doc.annot, page_num))
         /\ pages' = ListPop(pages, page_num)
    ELSE UNCHANGED <<doc, pages>>

DeletePage(page_num) ==
    /\ pdf_document # None
    /\ delete_page(page_num)
    /\ UNCHANGED <<pdf_document, file_path, metadata, current_page, zoom_level>>
    /\ result' = Result("delete_page", page_num, "", delete_page_ok(page_num))
    /\ propagated' = Propagated(delete_page_fault(page_num))
    /\ UNCHANGED page_list

\* whether insert_page(page_num, content) reaches "return True":
\* self.doc.new_page raises on None, on pno < -1 and on pno > page_count
insert_page_ok(page_num) ==
    doc.open /\ -1 <= page_num /\ page_num <= PageCount

\* the exception raised inside insert_page's try block
insert_page_fault(page_num) ==
    IF ~doc.open THEN "AttributeError"
    ELSE IF ~(-1 <= page_num /\ page_num <= PageCount) THEN "ValueError"
    ELSE NoFault

\* PDFDocument.insert_page, the body of the method.  new_page(-1) appends.
insert_page(page_num, content) ==
    IF insert_page_ok(page_num)
    THEN /\ doc' = LET at == IF page_num < 0 THEN PageCount ELSE page_num
                   IN  Doc(SubSeq(doc.page, 1, at) \o <<content>>
                             \o SubSeq(doc.page, at + 1, PageCount),
                           SubSeq(doc.annot, 1, at) \o << <<>> >>
                             \o SubSeq(doc.annot, at + 1, PageCount))
         /\ pages' = ListInsert(pages, page_num, PDFPage(page_num))
    ELSE UNCHANGED <<doc, pages>>

InsertPage(page_num, content) ==
    /\ pdf_document # None
    /\ insert_page_ok(page_num) => PageCount < MaxPages
    /\ insert_page(page_num, content)
    /\ UNCHANGED <<pdf_document, file_path, metadata, current_page, zoom_level>>
    /\ result' = Result("insert_page", page_num, content,
                        insert_page_ok(page_num))
    /\ propagated' = Propagated(insert_page_fault(page_num))
    /\ UNCHANGED page_list

\* whether merge_documents(path) reaches "return True"
merge_documents_ok(path) == CanOpen(path) /\ doc.open

\* the exception raised inside merge_documents' try block
merge_documents_fault(path) ==
    IF ~CanOpen(path) THEN "FileNotFoundError"
    ELSE IF ~doc.open THEN "AttributeError"
    ELSE NoFault

\* merge_documents that inserts the other document's pages in front
merge_documents_in_front(path) ==
    IF merge_documents_ok(path)
    THEN /\ doc' = Doc(FileText(path) \o doc.page,
                       OpenDoc(FileText(path)).annot \o doc.annot)
         /\ pages' = AllPages(PageCount + Len(FileText(path)))
    ELSE UNCHANGED <<doc, pages>>

\* PDFDocument.merge_documents, the body of the method
merge_documents(path) ==
    IF merge_documents_ok(path)
    THEN /\ doc' = Doc(doc.page \o FileText(path),
                       doc.annot \o OpenDoc(FileText(path)).annot)
         /\ pages' = AllPages(PageCount + Len(FileText(path)))
    ELSE UNCHANGED <<doc, pages>>

MergeDocuments(path) ==
    /\ pdf_document # None
    /\ merge_documents_ok(path) => PageCount + Len(FileText(path)) <= MaxPages
    /\ merge_documents(path)
    /\ UNCHANGED <<pdf_document, file_path, metadata, current_page, zoom_level>>
    /\ result' = Result("merge_documents", 0, path, merge_documents_ok(path))
    /\ propagated' = Propagated(merge_documents_fault(path))
    /\ UNCHANGED page_list

\* the exception raised inside save_document's try block; write_ok is
\* whether the file system accepts the write
save_document_fault(output_path, write_ok) ==
    LET save_path == IF output_path # None THEN output_path ELSE file_path
    IN  IF ~doc.open THEN "AttributeError"
        ELSE IF save_path = None THEN "TypeError"
        ELSE IF ~write_ok THEN "OSError"
        ELSE NoFault

\* PDFDocument.save_document: the session itself is left as it is
SaveDocument(output_path, write_ok) ==
    /\ pdf_document # None
    /\ UNCHANGED <<pdf_document, session, page_list>>
    /\ result' = Result("save_document", 0, output_path,
                        save_document_fault(output_path, write_ok) = NoFault)
    /\ propagated' = Propagated(save_document_fault(output_path, write_ok))

\* the exception raised inside extract_pages' try block: insert_pdf clamps
\* the page range to the source, and a document without pages is not saved
extract_pages_fault(start_page, end_page, write_ok) ==
    IF ~doc.open THEN "AttributeError"
    ELSE IF PageCount = 0 THEN "ValueError"
    ELSE IF ~write_ok THEN "OSError"
    ELSE NoFault

\* PDFDocument.extract_pages: the session itself is left as it is
ExtractPages(start_page, end_page, output_path, write_ok) ==
    /\ pdf_document # None
    /\ UNCHANGED <<pdf_document, session, page_list>>
    /\ result' = Result("extract_pages", 0, output_path,
                        extract_pages_fault(start_page, end_page, write_ok)
                          = NoFault)
    /\ propagated' =
           Propagated(extract_pages_fault(start_page, end_page, write_ok))

\* the annotation fitz adds for a kind add_annotation knows
AnnotOf(annotation_type) ==
    IF annotation_type = "highlight" THEN "Highlight" ELSE "Text"

RECURSIVE TotalAnnots(_)
\* the number of annotations in a document's pages
TotalAnnots(annots) ==
    IF annots = <<>> THEN 0
    ELSE Len(Head(annots)) + TotalAnnots(Tail(annots))

\* the exception raised inside add_annotation's try block: self.doc[page_num]
\* on None or past the end, annot unbound for a kind no branch handles
add_annotation_fault(page_num, annotation_type) ==
    IF ~doc.open THEN "TypeError"
    ELSE IF ~(-PageCount <= page_num /\ page_num < PageCount) THEN "IndexError"
    ELSE IF annotation_type \notin {"highlight", "text", "note"}
         THEN "UnboundLocalError"
    ELSE NoFault

\* PDFDocument.add_annotation, the body of the method: the annotation goes
\* into the page of the document, and self.pages is not touched
add_annotation(page_num, annotation_type) ==
    IF add_annotation_fault(page_num, annotation_type) = NoFault
    THEN LET p == IF page_num < 0 THEN page_num + PageCount ELSE page_num
         IN  /\ doc' = [doc EXCEPT !.annot[p + 1] =
                                     Append(@, AnnotOf(annotation_type))]
             /\ pages' = pages
    ELSE UNCHANGED <<doc, pages>>

AddAnnotation(page_num, annotation_type) ==
    /\ pdf_document # None
    /\ add_annotation_fault(page_num, annotation_type) = NoFault
          => TotalAnnots(doc.annot) < MaxAnnots
    /\ add_annotation(page_num, annotation_type)
    /\ UNCHANGED <<pdf_document, file_path, metadata, current_page, zoom_level,
                   page_list>>
    /\ result' = Result("add_annotation", page_num, annotation_type,
                        add_annotation_fault(page_num, annotation_type)
                          = NoFault)
    /\ propagated' = Propagated(add_annotation_fault(page_num, annotation_type))

----------------------------------------------------------------------------
(* PDFViewerScreen *)

\* create_new_pdf: PDFDocument(), doc = fitz.open(), insert_page(0, text)
CreateNewPdf ==
    /\ pdf_document' = Session
    /\ file_path' = None
    /\ doc' = OpenDoc(<<NewPdfText>>)
    /\ pages' = <<PDFPage(0)>>
    /\ metadata' = {}
    /\ current_page' = 0
    /\ zoom_level' = ZoomScale
    /\ result' = Result("create_new_pdf", 0, "", TRUE)
    /\ propagated' = NoFault
    /\ page_list' = <<PDFPage(0)>>

\* load_pdf: a new PDFDocument(file_path); show_page(0) when it has a doc.
\* A fitz.Document is falsy when it has no page.
LoadPdf(path) ==
    /\ pdf_document' = Session
    /\ file_path' = path
    /\ doc' = IF CanOpen(path) THEN OpenDoc(FileText(path)) ELSE NoDoc
    /\ pages' = IF CanOpen(path) THEN AllPages(Len(FileText(path))) ELSE <<>>
    /\ metadata' = IF CanOpen(path) THEN FileMetadata(path) ELSE {}
    /\ current_page' = 0
    /\ zoom_level' = ZoomScale
    /\ result' = Result("load_pdf", 0, path,
                        CanOpen(path) /\ Len(FileText(path)) > 0)
    /\ propagated' = NoFault
    /\ page_list' = IF CanOpen(path) /\ Len(FileText(path)) > 0
                    THEN AllPages(Len(FileText(path)))
                    ELSE page_list

\* whether show_page(page_num) passes its guard
show_page_ok(page_num) ==
    pdf_document # None /\ 0 <= page_num /\ page_num < Len(pages)

\* show_page, the body of the handler
show_page(page_num) ==
    current_page' = IF show_page_ok(page_num) THEN page_num ELSE current_page

ShowPage(page_num) ==
    /\ show_page(page_num)
    /\ UNCHANGED <<pdf_document, file_path, doc, pages, metadata, zoom_level>>
    /\ result' = Result("show_page", page_num, "", show_page_ok(page_num))
    /\ propagated' = NoFault
    /\ UNCHANGED page_list

\* refresh_page_list, which confirm_delete_page calls when the deletion
\* succeeded: the widgets are cleared and rebuilt, one per handle
refresh_page_list(refresh, handles) == IF refresh THEN handles ELSE page_list

\* confirm_delete_page: delete_page on the session, if there is one
ConfirmDeletePage(page_num) ==
    /\ IF pdf_document # None
       THEN delete_page(page_num)
       ELSE UNCHANGED <<doc, pages>>
    /\ UNCHANGED <<pdf_document, file_path, metadata, current_page, zoom_level>>
    /\ result' = Result("confirm_delete_page", page_num, "",
                        pdf_document # None /\ delete_page_ok(page_num))
    /\ propagated' = NoFault
    /\ page_list' = refresh_page_list(
                        pdf_document # None /\ delete_page_ok(page_num),
                        pages')

\* PagePreviewWidget.delete_page of the widget at a position of the page
\* list, confirmed in the dialog: the screen's delete_page gets the
\* page_num of the widget's handle and hands it to confirm_delete_page
PressDelete(position) ==
    /\ 0 <= position /\ position < Len(page_list)
    /\ ConfirmDeletePage(page_list[position + 1].page_num)

\* the upper clamp 3.0 of zoom_in
MaxZoom == 3 * ZoomScale

\* the lower clamp 0.3 of zoom_out
MinZoom == (3 * ZoomScale) \div 10

\* zoom_level * 1.2 without the clamp
zoom_in_unclamped(z) == (z * 12 + 5) \div 10

\* min(zoom_level * 1.2, 3.0), rounded to the nearest unit
zoom_in_level(z) ==
    LET up == (z * 12 + 5) \div 10
    IN  IF up < MaxZoom THEN up ELSE MaxZoom

\* max(zoom_level / 1.2, 0.3), rounded to the nearest unit
zoom_out_level(z) ==
    LET down == (z * 10 + 6) \div 12
    IN  IF down > MinZoom THEN down ELSE MinZoom

\* zoom_in, then refresh_current_page -> show_page(current_page)
ZoomIn ==
    /\ zoom_level' = IF pdf_document # None THEN zoom_in_level(zoom_level)
                     ELSE zoom_level
    /\ UNCHANGED <<pdf_document, file_path, doc, pages, metadata, current_page>>
    /\ result' = Result("zoom_in", 0, "", pdf_document # None)
    /\ propagated' = NoFault
    /\ UNCHANGED page_list

\* zoom_out, then refresh_current_page -> show_page(current_page)
ZoomOut ==
    /\ zoom_level' = IF pdf_document # None THEN zoom_out_level(zoom_level)
                     ELSE zoom_level
    /\ UNCHANGED <<pdf_document, file_path, doc, pages, metadata, current_page>>
    /\ result' = Result("zoom_out", 0, "", pdf_document # None)
    /\ propagated' = NoFault
    /\ UNCHANGED page_list

----------------------------------------------------------------------------
Next ==
    \/ \E path \in Paths \cup {None} : PDFDocumentInit(path)
    \/ \E path \in Paths : LoadDocument(path)
    \/ \E page_num \in Indices : DeletePage(page_num)
    \/ \E page_num \in InsertIndices, content \in Contents :
           InsertPage(page_num, content)
    \/ \E path \in Paths : MergeDocuments(path)
    \/ \E page_num \in Indices : ShowPage(page_num)

Spec == Init /\ [][Next]_vars

\* every operation of the session, called in any order: on no document or
\* a loaded one, with a path that opens or not, a page number inside or
\* outside the document, a known or unknown annotation kind
NextSession ==
    \/ \E path \in {None, "a.pdf"} : PDFDocumentInit(path)
    \/ \E path \in {"a.pdf", "missing.pdf"} : LoadDocument(path)
    \/ \E output_path \in OutPaths \cup {None}, write_ok \in BOOLEAN :
           SaveDocument(output_path, write_ok)
    \/ \E page_num \in Indices : DeletePage(page_num)
    \/ \E page_num \in InsertIndices : InsertPage(page_num, "Hello")
    \/ \E path \in {"b.pdf", "missing.pdf"} : MergeDocuments(path)
    \/ \E start_page \in {-1, 0}, end_page \in {0, MaxPages},
          output_path \in OutPaths, write_ok \in BOOLEAN :
           ExtractPages(start_page, end_page, output_path, write_ok)
    \/ \E page_num \in Indices, annotation_type \in AnnotationTypes :
           AddAnnotation(page_num, annotation_type)

SpecSession == Init /\ [][NextSession]_vars

\* what the user can do on the screen: new, open, show a page, zoom, and
\* delete a page with the button of its preview widget
NextScreen ==
    \/ CreateNewPdf
    \/ \E path \in Paths : LoadPdf(path)
    \/ \E page_num \in Indices : ShowPage(page_num)
    \/ ZoomIn
    \/ ZoomOut
    \/ \E position \in 0 .. MaxPages - 1 : PressDelete(position)

SpecScreen == Init /\ [][NextScreen]_vars

\* the viewer's zoom controls on a session the screen created or loaded
NextZoom ==
    \/ CreateNewPdf
    \/ \E path \in Paths : LoadPdf(path)
    \/ \E page_num \in Indices : ShowPage(page_num)
    \/ ZoomIn
    \/ ZoomOut

SpecZoom == Init /\ [][NextZoom]_vars

----------------------------------------------------------------------------
(* Properties *)

\* names under which delete_page is reached
DeleteOps == {"delete_page", "confirm_delete_page"}

\* names of the operations that change the document or its handles
MutatingOps == {"PDFDocument", "load_document", "delete_page", "insert_page",
                "merge_documents", "create_new_pdf", "load_pdf",
                "confirm_delete_page"}

\* handle i of the sequence references page i
HandlesInOrder(hs) == \A i \in 1 .. Len(hs) : hs[i].page_num = i - 1

\* C1: a successful delete_page(index) reduces the page count by one, and
\* every handle that was at a position > index afterwards references its
\* new position (old position - 1).
C1_DeleteShiftsHandles ==
    [][(result'.op \in DeleteOps /\ result'.ok) =>
          /\ PageCount' = PageCount - 1
          /\ \A p \in (result'.index + 1) .. (Len(pages) - 1) :
                 /\ p <= Len(pages')
                 /\ pages'[p].page_num = p - 1]_vars

\* C2: a successful insert_page(index, content) with 0 <= index <= page
\* count increases the page count by one, puts a handle referencing page
\* index at position index, and every handle previously at a position
\* >= index afterwards references (old position + 1).
C2_InsertShiftsHandles ==
    [][(/\ result'.op = "insert_page" /\ result'.ok
        /\ 0 <= result'.index /\ result'.index <= PageCount) =>
          /\ PageCount' = PageCount + 1
          /\ Len(pages') = Len(pages) + 1
          /\ pages'[result'.index + 1].page_num = result'.index
          /\ \A p \in result'.index .. (Len(pages) - 1) :
                 pages'[p + 2].page_num = p + 1]_vars

\* the session as PDFDocument() with no path leaves it
EmptySession ==
    /\ pdf_document = Session /\ file_path = None /\ metadata = {}
    /\ ~doc.open /\ pages = <<>>

\* the session the scenario of C3 expects after its pages were inserted
ScenarioSession(texts) ==
    /\ pdf_document = Session /\ file_path = None /\ metadata = {}
    /\ doc.open /\ doc.page = texts /\ pages = AllPages(Len(texts))

\* C3: on an empty session insert_page(0, "Hello") succeeds and gives page
\* count 1 with the text of page 0 equal to "Hello"; then
\* insert_page(1, "World") gives page count 2; then delete_page(0) gives
\* page count 1 and the text of the remaining handle is "World".
C3_Scenario ==
    [][/\ (EmptySession /\ result' = Result("insert_page", 0, "Hello",
                                             result'.ok)) =>
             /\ result'.ok
             /\ PageCount' = 1 /\ Len(pages') = 1
             /\ get_text(pages'[1], doc') = "Hello"
       /\ (ScenarioSession(<<"Hello">>)
             /\ result' = Result("insert_page", 1, "World", result'.ok)) =>
             /\ result'.ok
             /\ PageCount' = 2
       /\ (ScenarioSession(<<"Hello", "World">>)
             /\ result' = Result("delete_page", 0, "", result'.ok)) =>
             /\ result'.ok
             /\ PageCount' = 1 /\ Len(pages') = 1
             /\ get_text(pages'[1], doc') = "World"]_vars

\* C4: whenever the last mutating operation returned success, the handle
\* sequence is as long as the document has pages.
C4_HandlesMatchPageCount ==
    (result.op \in MutatingOps /\ result.ok) => Len(pages) = PageCount

\* C4 witness: a successful mutation of a document left with two pages
C4_Witness ==
    /\ result.op \in {"insert_page", "merge_documents"} /\ result.ok
    /\ PageCount = 2 /\ Len(pages) = 2

\* C5: a load that fails on a session holding a document leaves file_path,
\* doc, pages, metadata, current_page and zoom_level untouched.
C5_FailedLoadKeepsState ==
    [][(result'.op = "load_document" /\ ~result'.ok /\ doc.open) =>
          session' = session]_vars

\* C6: with a non-empty document, 0 <= current_page < page count.
C6_CurrentPageInRange ==
    (pdf_document # None /\ doc.open /\ PageCount > 0) =>
        (0 <= current_page /\ current_page < PageCount)

\* C7: a successful load rebuilds the handles, one per page in page order,
\* and resets current_page to 0.
C7_LoadRebuildsAndResets ==
    [][(result'.op = "load_document" /\ result'.ok) =>
          /\ Len(pages') = PageCount'
          /\ HandlesInOrder(pages')
          /\ current_page' = 0]_vars

\* C8: delete_page with an index outside [0, page count) returns failure
\* and leaves the document and the handle sequence unchanged.
C8_DeleteOutOfRangeFails ==
    [][(/\ result'.op \in DeleteOps
        /\ ~(0 <= result'.index /\ result'.index < PageCount)) =>
          /\ ~result'.ok
          /\ doc' = doc
          /\ pages' = pages]_vars

\* C8 witness: delete_page refused an index at or past the end of a
\* document that has pages
C8_Witness ==
    /\ result.op \in DeleteOps /\ ~result.ok
    /\ PageCount > 0 /\ result.index >= PageCount

\* C9: a successful merge(other) leaves the original pages first, in their
\* order, followed by other's pages in their order, and handle i
\* references page i for every i.
C9_MergeAppendsInOrder ==
    [][(result'.op = "merge_documents" /\ result'.ok) =>
          /\ doc'.page = doc.page \o FileText(result'.arg)
          /\ PageCount' = PageCount + Len(FileText(result'.arg))
          /\ Len(pages') = PageCount'
          /\ HandlesInOrder(pages')]_vars

\* C9 witness: a merge appended another document's page after an original
\* page with a different text
C9_Witness ==
    /\ result.op = "merge_documents" /\ result.ok
    /\ PageCount = 2 /\ doc.page[1] # doc.page[2]
    /\ doc.page[2] = FileText(result.arg)[1]

\* C10: the zoom factor never leaves [0.3, 3.0].
C10_ZoomInRange == MinZoom <= zoom_level /\ zoom_level <= MaxZoom

\* C10 witness: zoom_in was clamped to 3.0
C10_Witness == result.op = "zoom_in" /\ result.ok /\ zoom_level = MaxZoom

\* C11: every successful add_annotation(index, kind, rect, content) appends
\* exactly one annotation descriptor to the annotations list of the handle
\* at position index.
C11_AnnotationAppended ==
    [][(/\ result'.op = "add_annotation" /\ result'.ok
        /\ 0 <= result'.index /\ result'.index < Len(pages)) =>
          /\ Len(pages') = Len(pages)
          /\ Len(pages'[result'.index + 1].annotations)
               = Len(pages[result'.index + 1].annotations) + 1]_vars

\* C12: no operation of the session lets an exception through to its
\* caller; each returns True or False.
C12_NoFaultPropagates == propagated = NoFault /\ result.ok \in BOOLEAN

\* C12 witness: add_annotation was called on a page of a loaded document
\* with a kind it does not know, and returned False
C12_Witness ==
    /\ result.op = "add_annotation" /\ result.arg = "stamp" /\ ~result.ok
    /\ doc.open /\ 0 <= result.index /\ result.index < PageCount

====
